---------------------------- MODULE Spec2Model ----------------------------
(***************************************************************************)
(* Model of publications/bibtex2html.py: the author formatter, the         *)
(* citation formatter and the load / group / sort / write script.          *)
(*                                                                         *)
(* A Python str is a sequence of one-character strings; a dict is a        *)
(* function whose DOMAIN is its key set; a call that may raise yields a    *)
(* record whose exc field names the exception ("" when it returns).        *)
(***************************************************************************)
EXTENDS Integers, Sequences, FiniteSets, TLC

VARIABLES
    authors_str,   \* argument of the format_authors_full call under study
    authors_ret,   \* its outcome
    entry,         \* argument of the format_entry call under study
    entry_ret,     \* its outcome
    pc,            \* position of the script
    bib_ok,        \* bibtexparser.load returned
    entries,       \* bib_database.entries
    idx,           \* position of the grouping loop in entries
    by_year,       \* defaultdict(list): year -> citations
    sorted_years,  \* sorted(by_year.keys(), reverse=True)
    out_opened,    \* open("index.html", "w") has run
    index_html,    \* content of index.html, as the chunks written
    yi,            \* position of the year loop in sorted_years
    ci             \* position of the card loop in by_year[year]

vars == <<authors_str, authors_ret, entry, entry_ret, pc, bib_ok, entries, idx,
          by_year, sorted_years, out_opened, index_html, yi, ci>>

authorVars == <<authors_str, authors_ret>>
entryVars == <<entry, entry_ret>>
scriptVars == <<pc, bib_ok, entries, idx, by_year, sorted_years, out_opened,
                index_html, yi, ci>>

---------------------------------------------------------------------------
(* Bounds of the model.                                                    *)

MaxAuthors == 3

MaxFieldLen == 5

MaxRecords == 3

---------------------------------------------------------------------------
(* Python str primitives.                                                  *)

\* str.isspace for the characters of the model
Whitespace == {" ", "\t"}

\* the class \d of the pattern, for the characters of the model
Digits == {"0", "1", "2", "3", "4", "5", "6", "7", "8", "9"}

\* code points, used by the comparison of str
CodePoint(c) ==
    CASE c = "0" -> 48 [] c = "1" -> 49 [] c = "2" -> 50 [] c = "3" -> 51
      [] c = "4" -> 52 [] c = "5" -> 53 [] c = "6" -> 54 [] c = "7" -> 55
      [] c = "8" -> 56 [] c = "9" -> 57

UpperCase == <<"A","B","C","D","E","F","G","H","I","J","K","L","M","N","O","P","Q","R","S","T","U","V","W","X","Y","Z">>
LowerCase == <<"a","b","c","d","e","f","g","h","i","j","k","l","m","n","o","p","q","r","s","t","u","v","w","x","y","z">>

LowerChar(c) ==
    IF \E i \in 1..Len(UpperCase) : UpperCase[i] = c
    THEN LowerCase[CHOOSE i \in 1..Len(UpperCase) : UpperCase[i] = c]
    ELSE c

\* str.lower()
Lower(s) == [i \in 1..Len(s) |-> LowerChar(s[i])]

\* s[i:] with a 1-based first index
From(s, i) == SubSeq(s, i, Len(s))

\* s.startswith(p)
StartsWith(s, p) == Len(p) <= Len(s) /\ SubSeq(s, 1, Len(p)) = p

\* s.find(p) as a 1-based index, 0 when p does not occur
Find(s, p) ==
    IF \E i \in 1..(Len(s) - Len(p) + 1) : SubSeq(s, i, i + Len(p) - 1) = p
    THEN CHOOSE i \in 1..(Len(s) - Len(p) + 1) :
            /\ SubSeq(s, i, i + Len(p) - 1) = p
            /\ \A j \in 1..(i - 1) : SubSeq(s, j, j + Len(p) - 1) # p
    ELSE 0

\* p in s
Contains(s, p) == Find(s, p) # 0

\* s.strip()
RECURSIVE LStrip(_)
LStrip(s) ==
    IF s # <<>> /\ Head(s) \in Whitespace THEN LStrip(Tail(s)) ELSE s

RECURSIVE RStrip(_)
RStrip(s) ==
    IF s # <<>> /\ s[Len(s)] \in Whitespace
    THEN RStrip(SubSeq(s, 1, Len(s) - 1))
    ELSE s

Strip(s) == RStrip(LStrip(s))

\* s.split(sep): every non-overlapping occurrence, left to right
RECURSIVE Split(_, _)
Split(s, sep) ==
    LET i == Find(s, sep)
    IN  IF i = 0 THEN <<s>>
        ELSE <<SubSeq(s, 1, i - 1)>> \o Split(From(s, i + Len(sep)), sep)

\* s.split(sep, 1)
SplitOnce(s, sep) ==
    LET i == Find(s, sep)
    IN  IF i = 0 THEN <<s>>
        ELSE <<SubSeq(s, 1, i - 1), From(s, i + Len(sep))>>

\* s.split(): the maximal runs of non-whitespace
RECURSIVE Words(_)
Words(s) ==
    LET t == LStrip(s)
    IN  IF t = <<>> THEN <<>>
        ELSE LET n == IF \E k \in 1..Len(t) : t[k] \in Whitespace
                      THEN (CHOOSE k \in 1..Len(t) :
                               /\ t[k] \in Whitespace
                               /\ \A j \in 1..(k - 1) : t[j] \notin Whitespace) - 1
                      ELSE Len(t)
             IN  <<SubSeq(t, 1, n)>> \o Words(From(t, n + 1))

\* sep.join(xs)
RECURSIVE Join(_, _)
Join(sep, xs) ==
    IF xs = <<>> THEN <<>>
    ELSE IF Len(xs) = 1 THEN xs[1]
    ELSE xs[1] \o sep \o Join(sep, Tail(xs))

\* re.sub(r"[{}]", "", s)
RemoveBraces(s) == SelectSeq(s, LAMBDA c : c \notin {"{", "}"})

latex_to_unicode(s) == IF s = <<>> THEN <<>> ELSE RemoveBraces(s)

clean_braces(s) == IF s = <<>> THEN <<>> ELSE RemoveBraces(s)

---------------------------------------------------------------------------
(* format_authors_full                                                     *)

\* the outcome of a call: exc = "" when it returned val
Returned(v) == [exc |-> "", val |-> v]
Raised(e) == [exc |-> e, val |-> <<>>]
NotCalled == [exc |-> "not called", val |-> <<>>]

\* the default of the parameter bold_name: "Li, Dongshuai"
bold_name == <<"L","i",","," ","D","o","n","g","s","h","u","a","i">>

AndSep == <<" ","a","n","d"," ">>

Strong(s) == <<"<","s","t","r","o","n","g",">">> \o s \o <<"<","/","s","t","r","o","n","g",">">>

\* authors = [a.strip() for a in authors_str.split(" and ")]
AuthorTokens(s) ==
    LET raw == Split(s, AndSep) IN [i \in 1..Len(raw) |-> Strip(raw[i])]

\* parts[-1] of a.split() raises IndexError when a holds no word
NameRaises(a) == ~Contains(a, <<",">>) /\ Words(a) = <<>>

\* the (last, first) pair of one author, rendered as "{last}, {first}"
NameStr(a) ==
    IF Contains(a, <<",">>)
    THEN LET p == SplitOnce(a, <<",">>)
         IN  Strip(p[1]) \o <<","," ">> \o Strip(p[2])
    ELSE LET parts == Words(a)
         IN  parts[Len(parts)] \o <<","," ">>
                \o Join(<<" ">>, SubSeq(parts, 1, Len(parts) - 1))

\* name_str, wrapped when it equals bold_name
Emphasised(a, bold) ==
    LET name_str == NameStr(a)
    IN  IF name_str = bold THEN Strong(name_str) ELSE name_str

format_authors_full(s, bold) ==
    LET authors == AuthorTokens(s)
        n == Len(authors)
    IN  IF n = 1
        THEN Returned(IF authors[1] = bold THEN Strong(authors[1]) ELSE authors[1])
        ELSE IF \E i \in 1..n : NameRaises(authors[i])
        THEN Raised("IndexError")
        ELSE Returned(Join(<<";"," ">>,
                [i \in 1..n |->
                    IF i < n THEN Emphasised(authors[i], bold)
                    ELSE <<"a","n","d"," ">> \o Emphasised(authors[i], bold)]))

---------------------------------------------------------------------------
(* format_entry                                                            *)

\* entry.get(key, "")
Get(e, key) == IF key \in DOMAIN e THEN e[key] ELSE <<>>

\* re.search(r"\d{4}", s): the leftmost four consecutive digits, "" for None
RECURSIVE SearchYear(_)
SearchYear(s) ==
    IF Len(s) < 4 THEN <<>>
    ELSE IF \A k \in 1..4 : s[k] \in Digits THEN SubSeq(s, 1, 4)
    ELSE SearchYear(Tail(s))

\* date_field = entry.get("date", "") or entry.get("year", "")
DateField(e) == IF Get(e, "date") # <<>> THEN Get(e, "date") ELSE Get(e, "year")

\* the positions where a run of exactly four digits starts
ExactRuns(s) ==
    { i \in 1..(Len(s) - 3) :
        /\ \A k \in 0..3 : s[i + k] \in Digits
        /\ (i = 1 \/ s[i - 1] \notin Digits)
        /\ (i + 4 > Len(s) \/ s[i + 4] \notin Digits) }

\* the first run of exactly four digits, "" when there is none
FirstExactRun(s) ==
    IF ExactRuns(s) = {} THEN <<>>
    ELSE LET i == CHOOSE i \in ExactRuns(s) : \A j \in ExactRuns(s) : i <= j
         IN  SubSeq(s, i, i + 3)

\* mutant: the pattern (?<!\d)\d{4}(?!\d) in place of \d{4}
YearOfExactRun(e) == FirstExactRun(DateField(e))

\* year = year_match.group(0) if year_match else ""
YearOf(e) == SearchYear(DateField(e))

\* mutant: "if number" dedented out of "if volume"
VolumePartNumberAlone(volume, number) ==
    (IF volume # <<>> THEN <<","," ">> \o volume ELSE <<>>)
        \o (IF number # <<>> THEN <<"(">> \o number \o <<")">> ELSE <<>>)

\* the volume / number suffix
VolumePart(volume, number) ==
    IF volume # <<>>
    THEN <<","," ">> \o volume
            \o (IF number # <<>> THEN <<"(">> \o number \o <<")">> ELSE <<>>)
    ELSE <<>>

\* mutant: the pages appended without the "if pages" guard
PagesPartUnguarded(pages) == <<","," ">> \o pages

\* the pages suffix
PagesPart(pages) == IF pages # <<>> THEN <<","," ">> \o pages ELSE <<>>

\* doi_url
DoiUrl(doi) ==
    IF ~StartsWith(Lower(doi), <<"h","t","t","p">>) THEN <<"h","t","t","p","s",":","/","/","d","o","i",".","o","r","g","/">> \o doi ELSE doi

\* the DOI suffix
DoiPart(doi) ==
    IF doi # <<>>
    THEN <<","," ","<","a"," ","h","r","e","f","=","'">> \o DoiUrl(doi)
            \o <<"'"," ","t","a","r","g","e","t","=","'","_","b","l","a","n","k","'"," ","c","l","a","s","s","=","'","t","e","x","t","-","b","l","u","e","-","6","0","0"," ","h","o","v","e","r",":","u","n","d","e","r","l","i","n","e","'",">">>
            \o DoiUrl(doi) \o <<"<","/","a",">">>
    ELSE <<>>

\* what a returning call of format_entry yields
EntryReturned(c, y) == [exc |-> "", citation |-> c, year |-> y]
EntryRaised(e) == [exc |-> e, citation |-> <<>>, year |-> <<>>]
EntryNotCalled == [exc |-> "not called", citation |-> <<>>, year |-> <<>>]

format_entry(e) ==
    LET authors == format_authors_full(
                       clean_braces(latex_to_unicode(Get(e, "author"))), bold_name)
        year == YearOf(e)
        title == clean_braces(latex_to_unicode(Get(e, "title")))
        journal == clean_braces(latex_to_unicode(Get(e, "journaltitle")))
        citation == authors.val \o <<","," ">> \o year \o <<"."," ">> \o title
                        \o <<"."," ","<","e","m",">">> \o journal \o <<"<","/","e","m",">">>
                        \o VolumePart(Get(e, "volume"), Get(e, "number"))
                        \o PagesPart(Get(e, "pages"))
                        \o DoiPart(Get(e, "doi"))
    IN  IF authors.exc # "" THEN EntryRaised(authors.exc)
        ELSE EntryReturned(citation, year)

---------------------------------------------------------------------------
(* Inputs of the two formatters.                                           *)

\* author tokens: empty, blank, a bare word, "First Last", "Last, First",
\* the highlighted author in three spellings, two commas, a tab
AuthorTokenPool ==
    { <<>>, <<" ">>, <<"D","o","e">>, <<"J"," ","D","o","e">>, <<"D","o","e",","," ","J">>, <<"L","i",","," ","D","o","n","g","s","h","u","a","i">>,
      <<"D","o","n","g","s","h","u","a","i"," ","L","i">>, <<"L","i"," ",",","D","o","n","g","s","h","u","a","i">>, <<"A",","," ","B",","," ","C">>, <<"J","\t","R"," ","D","o","e">> }

\* the author strings made of 1..MaxAuthors tokens joined by " and "
AuthorStrings ==
    UNION { { Join(AndSep, t) : t \in [1..n -> AuthorTokenPool] } : n \in 1..MaxAuthors }

\* the strings of at most n characters over alphabet
StringsUpTo(alphabet, n) == UNION { [1..k -> alphabet] : k \in 0..n }

\* an absent field is <<>>, a present one <<value>>
Absent == <<>>
Present(s) == <<s>>

MkEntry(opt) ==
    [k \in {f \in DOMAIN opt : opt[f] # Absent} |-> opt[k][1]]

\* records that vary which fields are present, empty or filled
FieldEntries ==
    { MkEntry(o) : o \in
        [ author : { Absent, Present(<<>>), Present(<<"{","D","o","e","}",","," ","J"," ","a","n","d"," ","L","i",","," ","D","o","n","g","s","h","u","a","i">>),
                     Present(<<"J"," ","D","o","e"," ","a","n","d"," ","{","}">>) },
          date : { Absent, Present(<<"i","n"," ","p","r","e","s","s">>), Present(<<"2","0","2","3","-","0","5","-","0","1">>) },
          year : { Absent, Present(<<"2","0","2","1">>) },
          title : { Absent, Present(<<>>), Present(<<"{","T","}","i","t","l","e">>) },
          journaltitle : { Absent, Present(<<>>), Present(<<"J","G","R">>) },
          volume : { Absent, Present(<<>>), Present(<<"5">>) },
          number : { Absent, Present(<<>>), Present(<<"2">>) },
          pages : { Absent, Present(<<>>), Present(<<"1","-","-","9">>) },
          doi : { Absent, Present(<<>>), Present(<<"1","0",".","1","/","x">>),
                  Present(<<"H","T","T","P","S",":","/","/","d","o","i",".","o","r","g","/","1","0",".","1","/","x">>) } ] }

\* records that vary the text the year is searched in
YearAlphabet == {"1", "2", "v"}

YearEntries ==
    { MkEntry([date |-> d, year |-> y]) :
        d \in {Absent} \cup { Present(s) : s \in StringsUpTo(YearAlphabet, MaxFieldLen) },
        y \in { Absent, Present(<<"2","0","2","0">>), Present(<<"v","1","2"," ","o","f"," ","2","0","1","9">>),
                Present(<<"n","o"," ","d","i","g","i","t","s"," ","h","e","r","e">>) } }

EntryInputs == FieldEntries \cup YearEntries

---------------------------------------------------------------------------
(* The calls under study.                                                  *)

ScriptIdle ==
    /\ pc = "idle" /\ bib_ok = FALSE /\ entries = <<>> /\ idx = 1
    /\ by_year = <<>> /\ sorted_years = <<>> /\ out_opened = FALSE
    /\ index_html = <<>> /\ yi = 1 /\ ci = 1

InitAuthors ==
    /\ authors_str \in AuthorStrings
    /\ authors_ret = NotCalled
    /\ entry = <<>> /\ entry_ret = EntryNotCalled
    /\ ScriptIdle

CallFormatAuthors ==
    /\ authors_ret = NotCalled
    /\ authors_ret' = format_authors_full(authors_str, bold_name)
    /\ UNCHANGED <<authors_str, entryVars, scriptVars>>

NextAuthors == CallFormatAuthors

SpecAuthors == InitAuthors /\ [][NextAuthors]_vars

InitEntry ==
    /\ entry \in EntryInputs
    /\ entry_ret = EntryNotCalled
    /\ authors_str = <<>> /\ authors_ret = NotCalled
    /\ ScriptIdle

CallFormatEntry ==
    /\ entry_ret = EntryNotCalled
    /\ entry_ret' = format_entry(entry)
    /\ UNCHANGED <<entry, authorVars, scriptVars>>

NextEntry == CallFormatEntry

SpecEntry == InitEntry /\ [][NextEntry]_vars

---------------------------------------------------------------------------
(* The script: load, group by year, sort the years, write index.html.      *)

\* a < b on str: lexicographic by code point, a proper prefix is smaller
RECURSIVE StrLess(_, _)
StrLess(a, b) ==
    IF a = <<>> THEN b # <<>>
    ELSE IF b = <<>> THEN FALSE
    ELSE IF Head(a) = Head(b) THEN StrLess(Tail(a), Tail(b))
    ELSE CodePoint(Head(a)) < CodePoint(Head(b))

\* mutant: sorted(keys) without reverse=True
RECURSIVE SortedForward(_)
SortedForward(keys) ==
    IF keys = {} THEN <<>>
    ELSE LET m == CHOOSE x \in keys : \A y \in keys : ~StrLess(y, x)
         IN  <<m>> \o SortedForward(keys \ {m})

\* sorted(keys, reverse=True)
RECURSIVE SortedReverse(_)
SortedReverse(keys) ==
    IF keys = {} THEN <<>>
    ELSE LET m == CHOOSE x \in keys : \A y \in keys : ~StrLess(x, y)
         IN  <<m>> \o SortedReverse(keys \ {m})

\* defaultdict(list)
EmptyDict == [y \in {} |-> <<>>]

\* mutant: by_year[year] = [citation] in place of the append
AssignTo(d, year, citation) ==
    [y \in DOMAIN d \cup {year} |-> IF y = year THEN <<citation>> ELSE d[y]]

\* by_year[year].append(citation)
AppendTo(d, year, citation) ==
    [y \in DOMAIN d \cup {year} |->
        IF y = year
        THEN (IF year \in DOMAIN d THEN d[year] ELSE <<>>) \o <<citation>>
        ELSE d[y]]

\* one f.write call: which template, and the value substituted into it
Chunk(tag, text) == [tag |-> tag, text |-> text]

\* index.html as an earlier run left it
OldPage == <<Chunk("old", <<>>)>>

\* the entries a publications.bib may hold
RecordPool ==
    { [author |-> <<"L","i",","," ","D","o","n","g","s","h","u","a","i"," ","a","n","d"," ","D","o","e",","," ","J">>, date |-> <<"2","0","2","3","-","0","5","-","0","1">>, title |-> <<"A">>],
      [author |-> <<"D","o","e",","," ","J">>, year |-> <<"2","0","2","1">>, title |-> <<"B">>],
      [year |-> <<"2","0","2","1">>, title |-> <<"C">>, volume |-> <<"5">>, number |-> <<"2">>],
      [title |-> <<"D">>, date |-> <<"i","n"," ","p","r","e","s","s">>],
      [author |-> <<"J"," ","D","o","e"," ","a","n","d"," ","{","}">>, year |-> <<"2","0","2","3">>, title |-> <<"E">>],
      [author |-> <<"D","o","e">>, year |-> <<"1","9","9","9">>, title |-> <<"F">>] }

BibFiles == UNION { [1..n -> RecordPool] : n \in 0..MaxRecords }

Init ==
    /\ pc = "load"
    /\ bib_ok = FALSE
    /\ entries = <<>>
    /\ idx = 1
    /\ by_year = EmptyDict
    /\ sorted_years = <<>>
    /\ out_opened = FALSE
    /\ index_html = OldPage
    /\ yi = 1
    /\ ci = 1
    /\ authors_str = <<>> /\ authors_ret = NotCalled
    /\ entry = <<>> /\ entry_ret = EntryNotCalled

\* open("publications.bib") and bibtexparser.load return
LoadBib ==
    /\ pc = "load"
    /\ \E es \in BibFiles : entries' = es
    /\ bib_ok' = TRUE
    /\ pc' = "group"
    /\ UNCHANGED <<idx, by_year, sorted_years, out_opened, index_html, yi, ci,
                   authorVars, entryVars>>

\* open("publications.bib") or bibtexparser.load raises: the script ends
LoadBibFails ==
    /\ pc = "load"
    /\ pc' = "aborted"
    /\ UNCHANGED <<bib_ok, entries, idx, by_year, sorted_years, out_opened,
                   index_html, yi, ci, authorVars, entryVars>>

\* one iteration of the grouping loop; an exception of format_entry ends the script
GroupEntry ==
    /\ pc = "group"
    /\ idx <= Len(entries)
    /\ LET r == format_entry(entries[idx])
       IN  IF r.exc # ""
           THEN /\ pc' = "aborted"
                /\ UNCHANGED <<by_year, idx>>
           ELSE /\ by_year' = AppendTo(by_year, r.year, r.citation)
                /\ idx' = idx + 1
                /\ pc' = pc
    /\ UNCHANGED <<bib_ok, entries, sorted_years, out_opened, index_html, yi, ci,
                   authorVars, entryVars>>

SortYears ==
    /\ pc = "group"
    /\ idx > Len(entries)
    /\ sorted_years' = SortedReverse(DOMAIN by_year)
    /\ pc' = "open"
    /\ UNCHANGED <<bib_ok, entries, idx, by_year, out_opened, index_html, yi, ci,
                   authorVars, entryVars>>

\* mutant: the output file opened before the bibliography is loaded
OpenOutputFirst ==
    /\ \/ /\ pc = "load"
          /\ ~out_opened
          /\ pc' = pc
       \/ /\ pc = "open"
          /\ pc' = "head"
    /\ index_html' = <<>>
    /\ out_opened' = TRUE
    /\ UNCHANGED <<bib_ok, entries, idx, by_year, sorted_years, yi, ci,
                   authorVars, entryVars>>

\* open("index.html", "w") truncates the file
OpenOutput ==
    /\ pc = "open"
    /\ index_html' = <<>>
    /\ out_opened' = TRUE
    /\ pc' = "head"
    /\ UNCHANGED <<bib_ok, entries, idx, by_year, sorted_years, yi, ci,
                   authorVars, entryVars>>

\* f.write of a template that holds no value
WriteStatic(at, tag, next) ==
    /\ pc = at
    /\ index_html' = Append(index_html, Chunk(tag, <<>>))
    /\ pc' = next
    /\ UNCHANGED <<bib_ok, entries, idx, by_year, sorted_years, out_opened, yi, ci,
                   authorVars, entryVars>>

WriteHead == WriteStatic("head", "head", "chapters")

WriteChapters == WriteStatic("chapters", "chapters", "journals")

WriteJournals == WriteStatic("journals", "journals", "years")

\* the heading of the next year
WriteYear ==
    /\ pc = "years"
    /\ yi <= Len(sorted_years)
    /\ index_html' = Append(index_html, Chunk("year", sorted_years[yi]))
    /\ ci' = 1
    /\ pc' = "cards"
    /\ UNCHANGED <<bib_ok, entries, idx, by_year, sorted_years, out_opened, yi,
                   authorVars, entryVars>>

\* the card of the next citation of the year
WriteCard ==
    /\ pc = "cards"
    /\ ci <= Len(by_year[sorted_years[yi]])
    /\ index_html' = Append(index_html, Chunk("card", by_year[sorted_years[yi]][ci]))
    /\ ci' = ci + 1
    /\ UNCHANGED <<pc, bib_ok, entries, idx, by_year, sorted_years, out_opened, yi,
                   authorVars, entryVars>>

\* f.write("</div></div>") ends the year
CloseYear ==
    /\ pc = "cards"
    /\ ci > Len(by_year[sorted_years[yi]])
    /\ index_html' = Append(index_html, Chunk("close", <<>>))
    /\ yi' = yi + 1
    /\ pc' = "years"
    /\ UNCHANGED <<bib_ok, entries, idx, by_year, sorted_years, out_opened, ci,
                   authorVars, entryVars>>

\* the closing template; the with block closes the file
WriteFoot ==
    /\ pc = "years"
    /\ yi > Len(sorted_years)
    /\ index_html' = Append(index_html, Chunk("foot", <<>>))
    /\ pc' = "done"
    /\ UNCHANGED <<bib_ok, entries, idx, by_year, sorted_years, out_opened, yi, ci,
                   authorVars, entryVars>>

Next ==
    \/ LoadBib
    \/ LoadBibFails
    \/ GroupEntry
    \/ SortYears
    \/ OpenOutput
    \/ WriteHead
    \/ WriteChapters
    \/ WriteJournals
    \/ WriteYear
    \/ WriteCard
    \/ CloseYear
    \/ WriteFoot

Spec == Init /\ [][Next]_vars

---------------------------------------------------------------------------
(* Properties of format_authors_full, under SpecAuthors.                   *)

\* s.endswith(p)
EndsWith(s, p) == Len(p) <= Len(s) /\ SubSeq(s, Len(s) - Len(p) + 1, Len(s)) = p

\* the number of positions of s at which p occurs
CountOcc(s, p) ==
    Cardinality({ i \in 1..(Len(s) - Len(p) + 1) : SubSeq(s, i, i + Len(p) - 1) = p })

AuthorsCalled == authors_ret # NotCalled

\* C1: format_authors_full never fails: for every author string, the empty
\* one and one with an empty or blank token among two or more included, the
\* call returns a string and raises nothing; the empty string yields "".
C1_NeverFails ==
    AuthorsCalled =>
        /\ authors_ret.exc = ""
        /\ authors_str = <<>> => authors_ret.val = <<>>

\* the element the author list holds for token i of n: the name re-rendered
\* as "Last, First", wrapped when it equals the highlight name, and "and "
\* before the last of two or more
ListElement(tokens, i) ==
    (IF Len(tokens) >= 2 /\ i = Len(tokens) THEN <<"a","n","d"," ">> ELSE <<>>)
        \o Emphasised(tokens[i], bold_name)

\* C6: every author token is re-rendered as "Last, First" however many
\* authors there are, and compared with the highlight name after that; a
\* single author yields that one re-rendered name ("J Doe" gives "Doe, J").
C6_EveryTokenRerendered ==
    LET tokens == AuthorTokens(authors_str)
    IN  (AuthorsCalled /\ \A i \in 1..Len(tokens) : Words(tokens[i]) # <<>>) =>
            authors_ret =
                Returned(Join(<<";"," ">>, [i \in 1..Len(tokens) |-> ListElement(tokens, i)]))

\* C7: an author string of n >= 2 tokens yields exactly n elements joined
\* by "; " in input order, "and " before the last one only, an element
\* wrapped in <strong> iff its re-rendered name equals the highlight name.
C7_ElementsJoined ==
    LET tokens == AuthorTokens(authors_str)
    IN  (AuthorsCalled /\ Len(tokens) >= 2) =>
            /\ authors_ret.exc = ""
            /\ Split(authors_ret.val, <<";"," ">>) =
                   [i \in 1..Len(tokens) |->
                       (IF i = Len(tokens) THEN <<"a","n","d"," ">> ELSE <<>>)
                           \o (IF NameStr(tokens[i]) = bold_name
                               THEN Strong(NameStr(tokens[i]))
                               ELSE NameStr(tokens[i]))]

---------------------------------------------------------------------------
(* Properties of format_entry, under SpecEntry.                            *)

EntryReturns == entry_ret.exc = ""

\* the author, title and journal texts as the citation shows them
ShownAuthors == format_authors_full(RemoveBraces(Get(entry, "author")), bold_name).val
ShownTitle == RemoveBraces(Get(entry, "title"))
ShownJournal == RemoveBraces(Get(entry, "journaltitle"))

\* the part of the citation every Record gets
CitationBase ==
    ShownAuthors \o <<","," ">> \o entry_ret.year \o <<"."," ">> \o ShownTitle
        \o <<"."," ","<","e","m",">">> \o ShownJournal \o <<"<","/","e","m",">">>

\* the citation after that part
CitationSuffix == From(entry_ret.citation, Len(CitationBase) + 1)

\* C5 as stated: every absent or empty field, author, year, title and
\* journal included, leaves no separator, punctuation or empty markup: no
\* leading ", ", no ". .", no "<em></em>", no dangling ", ", no "()".
C5_NoStrayPunctuation ==
    EntryReturns =>
        /\ ShownAuthors = <<>> => ~StartsWith(entry_ret.citation, <<","," ">>)
        /\ ShownTitle = <<>> => ~Contains(entry_ret.citation, <<"."," ",".">>)
        /\ ShownJournal = <<>> => ~Contains(entry_ret.citation, <<"<","e","m",">","<","/","e","m",">">>)
        /\ ~EndsWith(entry_ret.citation, <<","," ">>)
        /\ ~Contains(entry_ret.citation, <<"(",")">>)

\* C5 as amended: the citation always starts with
\* "{authors}, {year}. {title}. <em>{journal}</em>", punctuation included;
\* after it, each of volume, number, pages and doi that is absent or empty
\* adds nothing: one ", " per non-empty volume, pages and doi, no "(" unless
\* volume and number are both non-empty, nothing at all when volume, pages
\* and doi are all empty.
C5_OptionalSuffixesOmitted ==
    EntryReturns =>
        LET filled == { f \in {"volume", "pages", "doi"} : Get(entry, f) # <<>> }
        IN  /\ StartsWith(entry_ret.citation, CitationBase)
            /\ CountOcc(CitationSuffix, <<","," ">>) = Cardinality(filled)
            /\ filled = {} => CitationSuffix = <<>>
            /\ (Get(entry, "volume") = <<>> \/ Get(entry, "number") = <<>>) =>
                    /\ ~Contains(CitationSuffix, <<"(">>)
                    /\ ~Contains(CitationSuffix, <<")">>)
            /\ Get(entry, "doi") = <<>> => ~Contains(CitationSuffix, <<"<","a">>)
            /\ ~EndsWith(entry_ret.citation, <<","," ">>)

\* a Record with a number, an empty pages field and neither volume nor doi:
\* its citation is the base alone, which for no author starts with ", "
C5_Witness ==
    /\ EntryReturns
    /\ Get(entry, "number") # <<>>
    /\ "pages" \in DOMAIN entry /\ entry["pages"] = <<>>
    /\ Get(entry, "volume") = <<>> /\ Get(entry, "doi") = <<>>
    /\ "author" \notin DOMAIN entry
    /\ entry_ret.citation = CitationBase
    /\ StartsWith(entry_ret.citation, <<","," ">>)

\* C8: the year prefers the date field and is "" only if neither field
\* holds four digits: from date if date holds them, otherwise from year if
\* year holds them (also when date is non-empty without them), otherwise "".
C8_YearFallsBackToYearField ==
    EntryReturns =>
        entry_ret.year =
            IF SearchYear(Get(entry, "date")) # <<>> THEN SearchYear(Get(entry, "date"))
            ELSE IF SearchYear(Get(entry, "year")) # <<>> THEN SearchYear(Get(entry, "year"))
            ELSE <<>>

\* C9 as stated: the year is the first run of exactly four digits of the
\* field, "" when there is none; a run of five or more digits supplies none.
C9_ExactlyFourDigitRun ==
    EntryReturns => entry_ret.year = FirstExactRun(DateField(entry))

\* the positions at which four digits stand in a row
FourDigitsAt(s) == { i \in 1..(Len(s) - 3) : \A k \in 0..3 : s[i + k] \in Digits }

\* C9 as amended: the year is the four digits at the leftmost position of
\* the field where four digits stand in a row, whatever follows them, and ""
\* when there is no such position; shorter runs before it are skipped.
C9_FirstFourDigits ==
    EntryReturns =>
        LET s == DateField(entry)
        IN  /\ FourDigitsAt(s) = {} => entry_ret.year = <<>>
            /\ \A i \in FourDigitsAt(s) :
                   (\A j \in FourDigitsAt(s) : i <= j) =>
                       entry_ret.year = SubSeq(s, i, i + 3)
            /\ s = <<"v","1","2"," ","o","f"," ","2","0","1","9">> => entry_ret.year = <<"2","0","1","9">>
            /\ s = <<"2","0","2","3","-","0","5","-","0","1">> => entry_ret.year = <<"2","0","2","3">>
            /\ s = <<"n","o"," ","d","i","g","i","t","s"," ","h","e","r","e">> => entry_ret.year = <<>>

\* a field that is one run of five digits: the year is its first four
C9_Witness ==
    /\ EntryReturns
    /\ DateField(entry) = <<"2","1","2","1","1">>
    /\ entry_ret.year = <<"2","1","2","1">>

\* C10: the suffixes come in the order volume, number, pages, DOI, and
\* "({number})" is in the citation iff volume and number are both non-empty,
\* then right after ", {volume}"; volume "5", number "2" and neither pages
\* nor DOI end the citation with ", 5(2)"; without a volume there is no "(".
C10_NumberOnlyAfterVolume ==
    EntryReturns =>
        LET cit == entry_ret.citation
            volume == Get(entry, "volume")
            number == Get(entry, "number")
            pages == Get(entry, "pages")
            doi == Get(entry, "doi")
            both == volume # <<>> /\ number # <<>>
            atVolume == Find(cit, <<"<","/","e","m",">",","," ">> \o volume)
            atPages == Find(cit, <<","," ">> \o pages)
            atDoi == Find(cit, <<","," ","<","a"," ","h","r","e","f","=","'">>)
        IN  /\ Contains(cit, <<"(">> \o number \o <<")">>) <=> both
            /\ Contains(cit, <<"(">>) <=> both
            /\ both => Contains(cit, <<"<","/","e","m",">",","," ">> \o volume \o <<"(">> \o number \o <<")">>)
            /\ (volume # <<>> /\ pages # <<>>) => (0 < atVolume /\ atVolume < atPages)
            /\ (volume # <<>> /\ doi # <<>>) => (0 < atVolume /\ atVolume < atDoi)
            /\ (pages # <<>> /\ doi # <<>>) => (0 < atPages /\ atPages < atDoi)
            /\ doi # <<>> => EndsWith(cit, <<"<","/","a",">">>)
            /\ (pages # <<>> /\ doi = <<>>) => EndsWith(cit, <<","," ">> \o pages)
            /\ (both /\ pages = <<>> /\ doi = <<>>) =>
                   EndsWith(cit, <<","," ">> \o volume \o <<"(">> \o number \o <<")">>)
            /\ (volume = <<"5">> /\ number = <<"2">> /\ pages = <<>> /\ doi = <<>>) =>
                   EndsWith(cit, <<"<","/","e","m",">",","," ","5","(","2",")">>)

\* the Record with volume "5", number "2", no pages and no DOI
C10_Witness ==
    /\ EntryReturns
    /\ Get(entry, "volume") = <<"5">> /\ Get(entry, "number") = <<"2">>
    /\ Get(entry, "pages") = <<>> /\ Get(entry, "doi") = <<>>
    /\ EndsWith(entry_ret.citation, <<","," ","5","(","2",")">>)

---------------------------------------------------------------------------
(* Properties of the script, under Spec.                                   *)

\* C2: index.html is opened, truncated and written only after the
\* bibliography has been loaded; a failed load ends the run with the file
\* as the previous run left it.
C2_OutputOnlyAfterLoad ==
    /\ out_opened => bib_ok
    /\ index_html # OldPage => (out_opened /\ bib_ok)
    /\ (pc = "aborted" /\ ~bib_ok) => (index_html = OldPage /\ ~out_opened)

\* the load failed and the run is over
C2_Witness == pc = "aborted" /\ ~bib_ok /\ index_html = OldPage

\* the positions of the Records grouped so far whose year is y, in file order
GroupedAt(y) ==
    SelectSeq([i \in 1..(idx - 1) |-> i], LAMBDA i : format_entry(entries[i]).year = y)

\* the citations a YearGroup must hold: those of its Records, in file order
CitationsOf(y) ==
    [k \in 1..Len(GroupedAt(y)) |-> format_entry(entries[GroupedAt(y)[k]]).citation]

RECURSIVE TotalGrouped(_)
TotalGrouped(years) ==
    IF years = {} THEN 0
    ELSE LET y == CHOOSE y \in years : TRUE
         IN  Len(by_year[y]) + TotalGrouped(years \ {y})

AfterGrouping == pc \in {"open", "head", "chapters", "journals", "years", "cards", "done"}

\* the cards written between the heading of y and the end of its block
CardsUnder(y) ==
    LET h == CHOOSE i \in 1..Len(index_html) : index_html[i] = Chunk("year", y)
        e == CHOOSE i \in (h + 1)..Len(index_html) :
                /\ index_html[i].tag = "close"
                /\ \A j \in (h + 1)..(i - 1) : index_html[j].tag # "close"
    IN  [k \in 1..(e - h - 1) |-> index_html[h + k]]

\* the number of chunks of the page that satisfy Test
CountChunks(Test(_)) == Len(SelectSeq(index_html, Test))

\* C3: grouping partitions the citations: every Record grouped so far gave
\* one citation, held once by the YearGroup of its own year and by no other,
\* in file order; when the pass is over that is every Record; the page shows
\* each citation once, under the heading of its year, in that order.
C3_GroupingPartitions ==
    /\ \A i \in 1..(idx - 1) : format_entry(entries[i]).exc = ""
    /\ DOMAIN by_year = { format_entry(entries[i]).year : i \in 1..(idx - 1) }
    /\ \A y \in DOMAIN by_year : by_year[y] = CitationsOf(y)
    /\ TotalGrouped(DOMAIN by_year) = idx - 1
    /\ AfterGrouping => idx - 1 = Len(entries)
    /\ pc = "done" =>
        /\ CountChunks(LAMBDA c : c.tag = "card") = Len(entries)
        /\ CountChunks(LAMBDA c : c.tag = "year") = Cardinality(DOMAIN by_year)
        /\ \A y \in DOMAIN by_year :
            /\ CountChunks(LAMBDA c : c = Chunk("year", y)) = 1
            /\ CardsUnder(y) = [k \in 1..Len(by_year[y]) |-> Chunk("card", by_year[y][k])]

\* three Records, two of them of one year, grouped and written
C3_Witness ==
    /\ pc = "done"
    /\ Len(entries) = 3
    /\ Cardinality(DOMAIN by_year) = 2
    /\ \E y \in DOMAIN by_year : Len(by_year[y]) = 2 /\ by_year[y][1] # by_year[y][2]

\* the number a year key stands for; the empty key counts below every year
YearNumber(y) ==
    IF y = <<>> THEN -1
    ELSE 1000 * (CodePoint(y[1]) - 48) + 100 * (CodePoint(y[2]) - 48)
            + 10 * (CodePoint(y[3]) - 48) + (CodePoint(y[4]) - 48)

AfterSorting == AfterGrouping

\* the year headings written so far
Headings ==
    LET hs == SelectSeq(index_html, LAMBDA c : c.tag = "year")
    IN  [k \in 1..Len(hs) |-> hs[k].text]

\* C4: the headings come in strictly descending order of year, each distinct
\* year once: sorted_years lists every YearGroup key once, a larger year
\* before a smaller one ("2023" and "2021" give ["2023", "2021"]), the empty
\* year last; the headings written are sorted_years in that order.
C4_YearsDescending ==
    AfterSorting =>
        /\ Len(sorted_years) = Cardinality(DOMAIN by_year)
        /\ { sorted_years[i] : i \in 1..Len(sorted_years) } = DOMAIN by_year
        /\ \A i, j \in 1..Len(sorted_years) :
               i < j => YearNumber(sorted_years[i]) > YearNumber(sorted_years[j])
        /\ <<>> \in DOMAIN by_year => sorted_years[Len(sorted_years)] = <<>>
        /\ DOMAIN by_year = {<<"2","0","2","3">>, <<"2","0","2","1">>} => sorted_years = <<<<"2","0","2","3">>, <<"2","0","2","1">>>>
        /\ out_opened => Headings = SubSeq(sorted_years, 1, Len(Headings))
        /\ pc = "done" => Headings = sorted_years

\* the page of a file with the years 2023, 2021 and none
C4_Witness ==
    /\ pc = "done"
    /\ sorted_years = <<<<"2","0","2","3">>, <<"2","0","2","1">>, <<>>>>
    /\ Headings = sorted_years

=============================================================================
